---- MODULE Spec2Model ----
(***************************************************************************)
(* Model of car_finder.py: the Politeness Gate (check_allowed), the two    *)
(* connectors (EBayMotorsScraper.search, SerpAPIScraper.search) and the    *)
(* orchestrator find_cars.  Network outcomes (robots.txt retrieval, page   *)
(* fetches, page contents, search-API answers) are nondeterministic        *)
(* choices taken at the step that performs the request.                    *)
(*                                                                         *)
(* Python None is the string None below.  Text values are TLA+ strings;    *)
(* integers passed as price bounds are written as their decimal strings.   *)
(* A raw price is a sequence of characters (NoPrice when absent) so that   *)
(* parse_price can be computed; a card carries the mileage and location    *)
(* values that the regular expressions of parse_listing_card extract.      *)
(***************************************************************************)
EXTENDS Integers, Sequences, FiniteSets, TLC

VARIABLES entry, params, max_results, pc, q, scrapers, si, all_results,
          results, page, links, li, log, outcomes, df, exc, entered

vars == <<entry, params, max_results, pc, q, scrapers, si, all_results,
          results, page, links, li, log, outcomes, df, exc, entered>>

(* ------------------------------ bounds --------------------------------- *)
MaxCards == 2        \* result cards on one marketplace page
MaxLinks == 2        \* organic results returned by the search API
MaxCap == 2          \* largest max_results tried

(* -------------------------- program constants -------------------------- *)
Pages == 2           \* pages=2 passed by find_cars

None == "<None>"
BASE == "https://www.ebay.com/sch/i.html"
EBay == "EBayMotorsScraper"
Serp == "SerpAPIScraper"

\* an absent raw price, and the characters of a present one
NoPrice == <<None>>
Chars(t) ==
    CASE t = "$1" -> <<"$", "1">>
      [] t = "$12,345" -> <<"$", "1", "2", ",", "3", "4", "5">>
      [] t = "$7999.50" -> <<"$", "7", "9", "9", "9", ".", "5", "0">>
      [] t = "Contact" -> <<"C", "o", "n", "t", "a", "c", "t">>
      [] t = "9500" -> <<"9", "5", "0", "0">>
      [] t = "1.2.3" -> <<"1", ".", "2", ".", "3">>

\* Python truthiness of an optional string / optional int
Truthy(x) == x # None /\ x # ""
TruthyInt(x) == x # None /\ x # "0"

(* ---------------------------- check_allowed ---------------------------- *)
\* what happens when the robots.txt of the URL's origin is requested
PolicyOutcomes == {"unreachable", "unparseable", "allows", "forbids"}
PolicyFailures == {"unreachable", "unparseable"}

check_allowed_FailClosed(outcome) == outcome = "allows"

check_allowed(outcome) ==
    IF outcome \in PolicyFailures
    THEN TRUE                  \* except Exception: warn, return True
    ELSE outcome = "allows"    \* rp_parser.allowed(url, USER_AGENT)

allowed_Always(outcome) == TRUE

\* BaseScraper.allowed
allowed(outcome) == check_allowed(outcome)

(* ------------------------- EBayMotorsScraper --------------------------- *)
build_query_url(qq, min_price, max_price, p) ==
    [base |-> BASE, nkw |-> qq, LH_ItemCondition |-> "3000",
     udlo |-> IF TruthyInt(min_price) THEN min_price ELSE None,
     udhi |-> IF TruthyInt(max_price) THEN max_price ELSE None,
     pgn  |-> IF p > 1 THEN p ELSE 0]

\* the .s-item cards a page can hold: what select_one finds in each
Cards ==
    { [title |-> None, href |-> "https://ebay/itm/1", price |-> Chars("$1"), mileage |-> None, location |-> None],
      [title |-> "A", href |-> "https://ebay/itm/1", price |-> Chars("$12,345"), mileage |-> "45210", location |-> "Dallas, TX"],
      [title |-> "B", href |-> "https://ebay/itm/1", price |-> NoPrice, mileage |-> None, location |-> None],
      [title |-> "C", href |-> "https://ebay/itm/2", price |-> Chars("$7999.50"), mileage |-> None, location |-> None],
      [title |-> "D", href |-> None, price |-> Chars("Contact"), mileage |-> None, location |-> None] }

SeqsUpTo(S, n) == UNION { [1..k -> S] : k \in 0..n }

PageContents == SeqsUpTo(Cards, MaxCards)

\* returns <<>> for Python's None, <<record>> otherwise
parse_listing_card(card) ==
    IF card.title = None
    THEN <<>>
    ELSE << [title |-> card.title, price |-> card.price, mileage |-> card.mileage,
             location |-> card.location, url |-> card.href, source |-> "ebay"] >>

RECURSIVE parse_cards(_)
parse_cards(cards) ==
    IF cards = <<>> THEN <<>>
    ELSE parse_listing_card(Head(cards)) \o parse_cards(Tail(cards))

(* ---------------------------- SerpAPIScraper --------------------------- *)
\* keyword parameters search() can bind; EBay's has **kwargs
SearchAccepts(cls, kwargs) ==
    IF cls = EBay THEN "q" \in kwargs ELSE "q" \in kwargs /\ kwargs \subseteq {"q", "num"}

\* organic results: link may be missing
Organic ==
    { [link |-> None, title |-> "x"],
      [link |-> "https://a.example/1", title |-> "y"],
      [link |-> "https://b.example/2", title |-> "z"] }

OrganicResults == SeqsUpTo(Organic, MaxLinks)

OgPrices == {NoPrice, Chars("9500"), Chars("1.2.3")}

serp_record(r, price) ==
    [title |-> r.title, price |-> price, mileage |-> None, location |-> None,
     url |-> r.link, source |-> "serp"]

(* ------------------------------ find_cars ------------------------------ *)
RECURSIVE Join(_, _)
Join(sep, parts) ==
    IF parts = <<>> THEN ""
    ELSE IF Len(parts) = 1 THEN parts[1]
    ELSE parts[1] \o sep \o Join(sep, Tail(parts))

q_parts_ModelFirst(ps) ==
    (IF Truthy(ps.model) THEN <<ps.model>> ELSE <<>>)
    \o (IF Truthy(ps.make) THEN <<ps.make>> ELSE <<>>)
    \o (IF Truthy(ps.keywords) THEN <<ps.keywords>> ELSE <<>>)

q_parts(ps) ==
    (IF Truthy(ps.make) THEN <<ps.make>> ELSE <<>>)
    \o (IF Truthy(ps.model) THEN <<ps.model>> ELSE <<>>)
    \o (IF Truthy(ps.keywords) THEN <<ps.keywords>> ELSE <<>>)

compose_query(ps) ==
    LET parts == q_parts(ps)
        base == IF parts # <<>> THEN Join(" ", parts) ELSE "used car"
    IN IF Truthy(ps.zip) THEN base \o " " \o ps.zip ELSE base

build_scrapers_Always(ps) == <<EBay, Serp>>

build_scrapers(ps) ==
    <<EBay>> \o (IF Truthy(ps.serpapi_key) THEN <<Serp>> ELSE <<>>)

FindCarsKwargs == {"q", "min_price", "max_price", "pages"}

RECURSIVE drop_duplicates_KeepLast(_, _)
drop_duplicates_KeepLast(rows, seen) ==
    IF rows = <<>> THEN <<>>
    ELSE LET last == rows[Len(rows)]
             front == SubSeq(rows, 1, Len(rows) - 1)
         IN IF last.url \in seen
            THEN drop_duplicates_KeepLast(front, seen)
            ELSE drop_duplicates_KeepLast(front, seen \cup {last.url}) \o <<last>>

\* DataFrame.drop_duplicates(subset=["url"]), keep="first"; None urls compare equal
RECURSIVE drop_duplicates(_, _)
drop_duplicates(rows, seen) ==
    IF rows = <<>> THEN <<>>
    ELSE IF Head(rows).url \in seen
         THEN drop_duplicates(Tail(rows), seen)
         ELSE <<Head(rows)>> \o drop_duplicates(Tail(rows), seen \cup {Head(rows).url})

Digits == {"0", "1", "2", "3", "4", "5", "6", "7", "8", "9"}
DigitVal(c) == CHOOSE n \in 0..9 : <<"0", "1", "2", "3", "4", "5", "6", "7", "8", "9">>[n + 1] = c

IsDigit(c) == c \in Digits
IsDigitOrDot(c) == c \in Digits \cup {"."}

RECURSIVE ToInt(_)
ToInt(ds) ==
    IF ds = <<>> THEN 0
    ELSE ToInt(SubSeq(ds, 1, Len(ds) - 1)) * 10 + DigitVal(ds[Len(ds)])

\* the value mant / 10^exp, written without trailing fractional zeros
RECURSIVE Decimal(_, _)
Decimal(mant, exp) ==
    IF exp > 0 /\ mant % 10 = 0 THEN Decimal(mant \div 10, exp - 1) ELSE <<mant, exp>>

\* float(s) for s made of digits and dots: <<>> stands for the ValueError
to_float(s) ==
    LET dots == { i \in 1..Len(s) : s[i] = "." }
        digs == SelectSeq(s, IsDigit)
    IN IF Cardinality(dots) > 1 \/ digs = <<>>
       THEN <<>>
       ELSE Decimal(ToInt(digs),
                    IF dots = {} THEN 0 ELSE Len(s) - (CHOOSE i \in dots : TRUE))

\* <<>> is the absent numeric price, <<mant, exp>> the number mant / 10^exp
parse_price(p) ==
    IF p = NoPrice THEN <<>>
    ELSE LET s == SelectSeq(p, IsDigitOrDot)
         IN IF s # <<>> THEN to_float(s) ELSE <<>>

with_price_num(rows) ==
    [ i \in 1..Len(rows) |->
        [title |-> rows[i].title, price |-> rows[i].price, mileage |-> rows[i].mileage,
         location |-> rows[i].location, url |-> rows[i].url, source |-> rows[i].source,
         price_num |-> parse_price(rows[i].price)] ]

normalize(rows) ==
    IF rows = <<>> THEN <<>> ELSE drop_duplicates(with_price_num(rows), {})

(* ------------------------------- inputs -------------------------------- *)
DefaultMaxResults == 200

ParamsOver(zips, makes, models, kws, mins, maxs, keys) ==
    [zip : zips, make : makes, model : models, keywords : kws,
     min_price : mins, max_price : maxs, serpapi_key : keys]

\* filters used to drive the whole pipeline
MainParams ==
    { [zip |-> "Dallas TX", make |-> None, model |-> None, keywords |-> "",
       min_price |-> None, max_price |-> None, serpapi_key |-> None],
      [zip |-> "Dallas TX", make |-> "Toyota", model |-> None, keywords |-> None,
       min_price |-> None, max_price |-> "15000", serpapi_key |-> "K"] }

\* filters used to exercise query composition
WideParams ==
    ParamsOver({None, "", "Dallas TX"}, {None, "", "Toyota"}, {None, "", "Camry"},
               {None, "", "awd"}, {None, "0"}, {None, "15000"}, {None, "K"})

DirectParams ==
    [zip |-> None, make |-> None, model |-> None, keywords |-> None,
     min_price |-> None, max_price |-> None, serpapi_key |-> "K"]

(* ------------------------------ log events ----------------------------- *)
CheckEvent(conn, idx, url, outcome) ==
    [op |-> "check", conn |-> conn, idx |-> idx, url |-> url,
     outcome |-> outcome, ok |-> check_allowed(outcome), body |-> <<>>]

FetchEvent(conn, idx, url, ok, body) ==
    [op |-> "fetch", conn |-> conn, idx |-> idx, url |-> url,
     outcome |-> IF ok THEN "ok" ELSE "error", ok |-> ok, body |-> body]

\* where control goes when search() returns / raises
AfterReturn == IF entry = "find_cars" THEN "returned" ELSE "done"
AfterRaise_Propagates == "raised"

AfterRaise == IF entry = "find_cars" THEN "except" ELSE "raised"

\* the for-loop over scrapers: next iteration or fall through to normalization
LoopAt(i) == IF i > Len(scrapers) THEN "normalize" ELSE "call"

(* -------------------------------- Init --------------------------------- *)
InitCommon ==
    /\ all_results = <<>>
    /\ results = <<>>
    /\ page = 0
    /\ links = <<>>
    /\ li = 0
    /\ log = <<>>
    /\ outcomes = <<>>
    /\ df = <<>>
    /\ exc = None
    /\ entered = <<>>

InitFindCars(ParamSet, Caps) ==
    /\ entry = "find_cars"
    /\ params \in ParamSet
    /\ max_results \in Caps
    /\ pc = "start"
    /\ q = None
    /\ scrapers = <<>>
    /\ si = 0
    /\ InitCommon

\* SerpAPIScraper(api_key).search(q) called on its own
InitSearch ==
    /\ entry = "search"
    /\ params = DirectParams
    /\ max_results = DefaultMaxResults
    /\ pc = "call"
    /\ q \in {"used car Dallas TX"}
    /\ scrapers = <<Serp>>
    /\ si = 1
    /\ InitCommon

Init == InitFindCars(MainParams, 1..MaxCap) \/ InitSearch

InitQuery == InitFindCars(WideParams, {DefaultMaxResults})

(* ------------------------------- actions ------------------------------- *)
\* find_cars lines 169-191: compose q, build the scraper list
FindCarsBegin ==
    /\ pc = "start"
    /\ q' = compose_query(params)
    /\ scrapers' = build_scrapers(params)
    /\ si' = 1
    /\ all_results' = <<>>
    /\ pc' = "call"
    /\ UNCHANGED <<entry, params, max_results, results, page, links, li, log, outcomes, df, exc, entered>>

CallKwargs == IF entry = "find_cars" THEN FindCarsKwargs ELSE {"q"}

\* s.search(...) binds its arguments and enters EBayMotorsScraper.search
CallEBay ==
    /\ pc = "call"
    /\ scrapers[si] = EBay
    /\ SearchAccepts(EBay, CallKwargs)
    /\ results' = <<>>
    /\ page' = 1
    /\ entered' = Append(entered, [scraper |-> EBay, q |-> q])
    /\ pc' = "ebay_page"
    /\ UNCHANGED <<entry, params, max_results, q, scrapers, si, all_results, links, li, log, outcomes, df, exc>>

\* s.search(...) binds its arguments and enters SerpAPIScraper.search
CallSerp ==
    /\ pc = "call"
    /\ scrapers[si] = Serp
    /\ SearchAccepts(Serp, CallKwargs)
    /\ results' = <<>>
    /\ entered' = Append(entered, [scraper |-> Serp, q |-> q])
    /\ pc' = "serp_query"
    /\ UNCHANGED <<entry, params, max_results, q, scrapers, si, all_results, page, links, li, log, outcomes, df, exc>>

\* s.search(...) is given a keyword the method does not take: TypeError
CallTypeError ==
    /\ pc = "call"
    /\ ~SearchAccepts(scrapers[si], CallKwargs)
    /\ results' = <<>>
    /\ exc' = "TypeError"
    /\ pc' = AfterRaise
    /\ UNCHANGED <<entry, params, max_results, q, scrapers, si, all_results, page, links, li, log, outcomes, df, entered>>

\* lines 112-114: the gate said no -> break out of the page loop
ebay_on_disallow_Continue(p) == [pc |-> "ebay_page", page |-> p + 1]

ebay_on_disallow(p) == [pc |-> AfterReturn, page |-> p]

EBayUrl(p) == build_query_url(q, params.min_price, params.max_price, p)

\* EBayMotorsScraper.search lines 109-114: build the URL, ask the gate
EBayCheckPage ==
    /\ pc = "ebay_page"
    /\ page <= Pages
    /\ \E outcome \in PolicyOutcomes :
         /\ log' = Append(log, CheckEvent("ebay", page, EBayUrl(page), outcome))
         /\ IF allowed(outcome)
            THEN pc' = "ebay_fetch" /\ page' = page
            ELSE pc' = ebay_on_disallow(page).pc /\ page' = ebay_on_disallow(page).page
    /\ UNCHANGED <<entry, params, max_results, q, scrapers, si, all_results, results, links, li, outcomes, df, exc, entered>>

\* lines 115-121: polite_get succeeds, every card is parsed
EBayFetchPage ==
    /\ pc = "ebay_fetch"
    /\ \E cards \in PageContents :
         /\ log' = Append(log, FetchEvent("ebay", page, EBayUrl(page), TRUE, cards))
         /\ results' = results \o parse_cards(cards)
    /\ page' = page + 1
    /\ pc' = "ebay_page"
    /\ UNCHANGED <<entry, params, max_results, q, scrapers, si, all_results, links, li, outcomes, df, exc, entered>>

\* line 115: polite_get raises (network error, timeout, non-2xx status)
EBayFetchFails ==
    /\ pc = "ebay_fetch"
    /\ log' = Append(log, FetchEvent("ebay", page, EBayUrl(page), FALSE, <<>>))
    /\ exc' = "RequestException"
    /\ pc' = AfterRaise
    /\ UNCHANGED <<entry, params, max_results, q, scrapers, si, all_results, results, page, links, li, outcomes, df, entered>>

\* line 122: the page loop is exhausted
EBayReturn ==
    /\ pc = "ebay_page"
    /\ page > Pages
    /\ pc' = AfterReturn
    /\ UNCHANGED <<entry, params, max_results, q, scrapers, si, all_results, results, page, links, li, log, outcomes, df, exc, entered>>

\* SerpAPIScraper.search lines 137-143: the search API answers
SerpQuery ==
    /\ pc = "serp_query"
    /\ \E res \in OrganicResults : links' = res
    /\ li' = 1
    /\ pc' = "serp_link"
    /\ UNCHANGED <<entry, params, max_results, q, scrapers, si, all_results, results, page, log, outcomes, df, exc, entered>>

\* lines 137-141: the import or the API request raises
SerpQueryFails ==
    /\ pc = "serp_query"
    /\ exc' = "Exception"
    /\ pc' = AfterRaise
    /\ UNCHANGED <<entry, params, max_results, q, scrapers, si, all_results, results, page, links, li, log, outcomes, df, entered>>

\* lines 147-148: a result without a link is passed over
SerpSkipNoLink ==
    /\ pc = "serp_link"
    /\ li <= Len(links)
    /\ links[li].link = None
    /\ li' = li + 1
    /\ UNCHANGED <<entry, params, max_results, pc, q, scrapers, si, all_results, results, page, links, log, outcomes, df, exc, entered>>

\* lines 149-150: ask the gate about the link
SerpCheckLink ==
    /\ pc = "serp_link"
    /\ li <= Len(links)
    /\ links[li].link # None
    /\ \E outcome \in PolicyOutcomes :
         /\ log' = Append(log, CheckEvent("serp", li, links[li].link, outcome))
         /\ IF allowed(outcome)
            THEN pc' = "serp_fetch" /\ li' = li
            ELSE pc' = "serp_link" /\ li' = li + 1
    /\ UNCHANGED <<entry, params, max_results, q, scrapers, si, all_results, results, page, links, outcomes, df, exc, entered>>

\* lines 151-160: the link is fetched and a record appended
SerpFetchLink ==
    /\ pc = "serp_fetch"
    /\ \E price \in OgPrices :
         /\ log' = Append(log, FetchEvent("serp", li, links[li].link, TRUE, <<price>>))
         /\ results' = Append(results, serp_record(links[li], price))
    /\ li' = li + 1
    /\ pc' = "serp_link"
    /\ UNCHANGED <<entry, params, max_results, q, scrapers, si, all_results, page, links, outcomes, df, exc, entered>>

\* lines 161-162: the fetch raises, is logged, the loop goes on
SerpFetchFails ==
    /\ pc = "serp_fetch"
    /\ log' = Append(log, FetchEvent("serp", li, links[li].link, FALSE, <<>>))
    /\ li' = li + 1
    /\ pc' = "serp_link"
    /\ UNCHANGED <<entry, params, max_results, q, scrapers, si, all_results, results, page, links, outcomes, df, exc, entered>>

\* line 163: the result loop is exhausted
SerpReturn ==
    /\ pc = "serp_link"
    /\ li > Len(links)
    /\ pc' = AfterReturn
    /\ UNCHANGED <<entry, params, max_results, q, scrapers, si, all_results, results, page, links, li, log, outcomes, df, exc, entered>>

\* line 196: len(all_results) >= max_results
cap_reached_Strict(total, cap) == total > cap

cap_reached(total, cap) == total >= cap

Outcome(status, found, total) ==
    [scraper |-> scrapers[si], status |-> status, found |-> found, total |-> total]

\* find_cars lines 195-197: extend, then test the cap
FindCarsExtend ==
    /\ pc = "returned"
    /\ all_results' = all_results \o results
    /\ outcomes' = Append(outcomes, Outcome("returned", results, Len(all_results')))
    /\ IF cap_reached(Len(all_results'), max_results)
       THEN pc' = "normalize" /\ si' = si
       ELSE pc' = LoopAt(si + 1) /\ si' = si + 1
    /\ UNCHANGED <<entry, params, max_results, q, scrapers, results, page, links, li, log, df, exc, entered>>

\* find_cars lines 198-199: the exception is logged, the loop goes on
FindCarsExcept ==
    /\ pc = "except"
    /\ outcomes' = Append(outcomes, Outcome("raised", results, Len(all_results)))
    /\ exc' = None
    /\ si' = si + 1
    /\ pc' = LoopAt(si + 1)
    /\ UNCHANGED <<entry, params, max_results, q, scrapers, all_results, results, page, links, li, log, df, entered>>

\* find_cars lines 202-214: build the table, drop duplicate urls
FindCarsNormalize ==
    /\ pc = "normalize"
    /\ df' = normalize(all_results)
    /\ pc' = "done"
    /\ UNCHANGED <<entry, params, max_results, q, scrapers, si, all_results, results, page, links, li, log, outcomes, exc, entered>>

Next ==
    \/ FindCarsBegin
    \/ CallEBay
    \/ CallSerp
    \/ CallTypeError
    \/ EBayCheckPage
    \/ EBayFetchPage
    \/ EBayFetchFails
    \/ EBayReturn
    \/ SerpQuery
    \/ SerpQueryFails
    \/ SerpSkipNoLink
    \/ SerpCheckLink
    \/ SerpFetchLink
    \/ SerpFetchFails
    \/ SerpReturn
    \/ FindCarsExtend
    \/ FindCarsExcept
    \/ FindCarsNormalize

Spec == Init /\ [][Next]_vars

\* query composition alone, over every combination of filters
NextQuery == FindCarsBegin

SpecQuery == InitQuery /\ [][NextQuery]_vars

(* ------------------------------ properties ----------------------------- *)
\* the listing record a table row was made from
Listing(row) ==
    [title |-> row.title, price |-> row.price, mileage |-> row.mileage,
     location |-> row.location, url |-> row.url, source |-> row.source]

InFindCars == entry = "find_cars"
Finished == InFindCars /\ pc = "done"

CheckIdx == { i \in 1..Len(log) : log[i].op = "check" }
FetchIdx == { i \in 1..Len(log) : log[i].op = "fetch" }

RECURSIVE ConcatReturned(_)
ConcatReturned(os) ==
    IF os = <<>> THEN <<>>
    ELSE (IF Head(os).status = "returned" THEN Head(os).found ELSE <<>>)
         \o ConcatReturned(Tail(os))

\* C1: find_cars never ends with an exception; a connector whose search
\* raised contributes no row (not even those parsed before the failure),
\* and the accumulated rows are exactly the rows of the connectors that
\* returned normally, in connector order.
C1_ConnectorIsolation ==
    InFindCars =>
        /\ pc # "raised"
        /\ pc \in {"call", "normalize", "done"} => exc = None
        /\ pc \in {"call", "normalize", "done"} => all_results = ConcatReturned(outcomes)
        /\ pc = "done" => \A r \in {df[k] : k \in 1..Len(df)} :
                               \E i \in 1..Len(outcomes) :
                                   /\ outcomes[i].status = "returned"
                                   /\ \E k \in 1..Len(outcomes[i].found) :
                                          outcomes[i].found[k] = Listing(r)

\* the marketplace connector failed on a later page after parsing records
C1_Witness ==
    /\ Finished
    /\ \E i \in 1..Len(outcomes) :
          outcomes[i].status = "raised" /\ outcomes[i].found # <<>>
    /\ all_results = <<>>

FirstIdx(rows) ==
    { i \in 1..Len(rows) : \A j \in 1..(i - 1) : rows[j].url # rows[i].url }

\* the k-th smallest element of a set of indices
Kth(S, k) == CHOOSE i \in S : Cardinality({ j \in S : j < i }) = k - 1

\* C2: the returned table has no two rows with the same url; each url of
\* the accumulated list is represented by its first record, and the kept
\* rows appear in accumulation order.
C2_DedupFirst ==
    Finished =>
        /\ \A i, j \in 1..Len(df) : i # j => df[i].url # df[j].url
        /\ Len(df) = Cardinality(FirstIdx(all_results))
        /\ \A k \in 1..Len(df) : Listing(df[k]) = all_results[Kth(FirstIdx(all_results), k)]

\* a later record with an already seen url and a different title was dropped
C2_Witness ==
    /\ Finished
    /\ Len(df) >= 2
    /\ \E i, j \in 1..Len(all_results) :
          /\ i < j
          /\ all_results[i].url = all_results[j].url
          /\ all_results[i].title # all_results[j].title
          /\ \E k \in 1..Len(df) : Listing(df[k]) = all_results[i]
          /\ \E m \in 1..Len(all_results) : m > j /\ all_results[m].url # all_results[i].url

\* records parsed from the marketplace pages numbered below p, in page order
RECURSIVE RecordsBelow(_, _)
RecordsBelow(events, p) ==
    IF events = <<>> THEN <<>>
    ELSE (IF Head(events).op = "fetch" /\ Head(events).conn = "ebay"
             /\ Head(events).ok /\ Head(events).idx < p
          THEN parse_cards(Head(events).body) ELSE <<>>)
         \o RecordsBelow(Tail(events), p)

EBayDenied == { i \in CheckIdx : log[i].conn = "ebay" /\ ~log[i].ok }

\* C3: when the gate denies marketplace page p, no fetch is issued for
\* page p or any later page, and the connector returns exactly the records
\* parsed from pages 1..p-1 (none, and no fetch at all, when p = 1).
C3_PaginationShortCircuit ==
    InFindCars =>
        \A i \in EBayDenied :
            LET p == log[i].idx IN
            /\ \A j \in FetchIdx : log[j].conn = "ebay" => log[j].idx < p
            /\ \A j \in CheckIdx : log[j].conn = "ebay" => log[j].idx <= p
            /\ Cardinality({ j \in FetchIdx : log[j].conn = "ebay" }) = p - 1
            /\ pc # "ebay_page" /\ pc # "ebay_fetch"
            /\ pc = "returned" => results = RecordsBelow(log, p)
            /\ Len(outcomes) >= 1 =>
                   /\ outcomes[1].status = "returned"
                   /\ outcomes[1].found = RecordsBelow(log, p)

\* page 1 was fetched and yielded records, page 2 was denied
C3_Witness ==
    /\ InFindCars
    /\ \E i \in EBayDenied : log[i].idx = 2
    /\ Len(outcomes) >= 1
    /\ Len(outcomes[1].found) >= 1

KeySupplied == Truthy(params.serpapi_key)

\* C4: with a key supplied and fewer than max_results marketplace records,
\* the search-engine connector's search runs with the composed query and
\* each link it fetched successfully is a "serp" row after the marketplace rows.
C4_SerpContributes ==
    (Finished /\ KeySupplied /\ Len(outcomes) >= 1 /\ outcomes[1].total < max_results) =>
        /\ \E k \in 1..Len(entered) :
              entered[k] = [scraper |-> Serp, q |-> compose_query(params)]
        /\ \A i \in FetchIdx : (log[i].conn = "serp" /\ log[i].ok) =>
              \E k \in 1..Len(all_results) :
                  /\ k > Len(outcomes[1].found)
                  /\ all_results[k].source = "serp"
                  /\ all_results[k].url = log[i].url

\* C5: no row of the returned table has an absent url.
C5_NoAbsentUrl ==
    Finished => \A k \in 1..Len(df) : df[k].url # None

InSearchCall == pc \in {"call", "ebay_page", "ebay_fetch", "serp_query", "serp_link", "serp_fetch"}

\* C6: connectors are invoked one at a time in list order; no search is
\* invoked once the running total has reached max_results; the records of
\* the connector that crossed the cap are all kept.
C6_CapBetweenConnectors ==
    (InFindCars /\ pc # "start") =>
        /\ Len(outcomes) <= Len(scrapers)
        /\ \A i \in 1..Len(outcomes) : outcomes[i].scraper = scrapers[i]
        /\ InSearchCall => si = Len(outcomes) + 1 /\ Len(all_results) < max_results
        /\ \A i \in 1..Len(outcomes) :
              (outcomes[i].status = "returned" /\ outcomes[i].total >= max_results) =>
                  /\ i = Len(outcomes)
                  /\ ~InSearchCall
                  /\ pc \in {"normalize", "done"} =>
                        /\ Len(all_results) = outcomes[i].total
                        /\ SubSeq(all_results, outcomes[i].total - Len(outcomes[i].found) + 1,
                                  outcomes[i].total) = outcomes[i].found

\* the marketplace connector alone overshot the cap, the second connector was never called
C6_Witness ==
    /\ Finished
    /\ Len(scrapers) = 2
    /\ Len(outcomes) = 1
    /\ Len(all_results) > max_results

\* joining two possibly empty texts with one space
Sp(a, b) == IF a = "" THEN b ELSE IF b = "" THEN a ELSE a \o " " \o b
Txt(x) == IF Truthy(x) THEN x ELSE ""

ExpectedQuery(ps) ==
    LET t == Sp(Sp(Txt(ps.make), Txt(ps.model)), Txt(ps.keywords))
        base == IF t = "" THEN "used car" ELSE t
    IN IF Truthy(ps.zip) THEN base \o " " \o ps.zip ELSE base

\* C7: the composed query is the non-empty parts among make, model,
\* keywords joined by single spaces in that order, or "used car" when there
\* is none, followed by a space and the location when one is given.
C7_QueryComposition ==
    (InFindCars /\ pc # "start") => q = ExpectedQuery(params)

\* make and keywords present, model empty, location last
C7_Witness ==
    /\ pc = "call"
    /\ params.make = "Toyota" /\ params.model = "" /\ params.keywords = "awd"
    /\ q = "Toyota awd Dallas TX"

OnlyLocation ==
    /\ Truthy(params.zip)
    /\ ~Truthy(params.make) /\ ~Truthy(params.model) /\ ~Truthy(params.keywords)
    /\ ~TruthyInt(params.min_price) /\ ~TruthyInt(params.max_price)
    /\ ~KeySupplied

\* C8: a call with only a location and no key uses the marketplace
\* connector alone, fetches at most Pages pages, and returns a table whose
\* rows all have source "ebay" and pairwise different urls.
C8_LocationOnly ==
    (InFindCars /\ OnlyLocation /\ pc # "start") =>
        /\ scrapers = <<EBay>>
        /\ \A k \in 1..Len(entered) : entered[k].scraper = EBay
        /\ Len(entered) <= 1
        /\ Cardinality(FetchIdx) <= Pages
        /\ \A i \in FetchIdx : log[i].conn = "ebay"
        /\ pc = "done" =>
              /\ \A k \in 1..Len(df) : df[k].source = "ebay"
              /\ \A i, j \in 1..Len(df) : i # j => df[i].url # df[j].url

\* both pages were fetched and the table has several rows
C8_Witness ==
    /\ Finished /\ OnlyLocation
    /\ Cardinality(FetchIdx) = Pages
    /\ Len(df) >= 2
    /\ Len(df) < Len(all_results)

\* C9: when the policy document cannot be retrieved or parsed the gate
\* answers "allowed" and the fetch of that URL follows; the gate answers
\* "not allowed" only for a retrieved policy that forbids the path.
C9_FailOpen ==
    \A i \in CheckIdx :
        /\ log[i].outcome \in PolicyFailures => log[i].ok
        /\ ~log[i].ok => log[i].outcome = "forbids"
        /\ log[i].outcome \in PolicyFailures =>
              IF i = Len(log)
              THEN pc \in {"ebay_fetch", "serp_fetch"} /\ exc = None
              ELSE /\ log[i + 1].op = "fetch"
                   /\ log[i + 1].conn = log[i].conn
                   /\ log[i + 1].idx = log[i].idx
                   /\ log[i + 1].url = log[i].url

\* both kinds of policy failure occurred and the fetches went ahead
C9_Witness ==
    /\ \E i \in CheckIdx : i < Len(log) /\ log[i].outcome = "unreachable"
    /\ \E i \in CheckIdx : i < Len(log) /\ log[i].outcome = "unparseable" /\ log[i].conn = "serp"

\* every fetch directly follows an "allowed" answer of the gate for the same URL
GateBeforeFetch ==
    \A j \in FetchIdx :
        /\ j > 1
        /\ log[j - 1].op = "check"
        /\ log[j - 1].ok
        /\ log[j - 1].url = log[j].url
        /\ log[j - 1].conn = log[j].conn
        /\ log[j - 1].idx = log[j].idx

\* in the search-engine connector every result that has a link is examined
SerpBatchCompleted ==
    (entry = "search" /\ pc = "done") =>
        /\ \A k \in 1..Len(links) : links[k].link # None =>
              \E i \in CheckIdx : log[i].conn = "serp" /\ log[i].idx = k
        /\ Len(results) = Cardinality({ j \in FetchIdx : log[j].ok })

\* C10 as stated: every fetch follows an "allowed" check of the same URL, a
\* URL the gate denied is never fetched, a URL whose fetch failed is never
\* fetched again, and the search-engine connector goes on after a denied
\* or failed link.
C10_NoRefetchByUrl ==
    /\ GateBeforeFetch
    /\ \A i \in CheckIdx : \A j \in FetchIdx :
          (i < j /\ ~log[i].ok) => log[j].url # log[i].url
    /\ \A i, j \in FetchIdx :
          (i < j /\ ~log[i].ok) => log[j].url # log[i].url
    /\ SerpBatchCompleted

SameEntry(i, j) == log[i].conn = log[j].conn /\ log[i].idx = log[j].idx

\* C10 amended: every fetch follows an "allowed" check of the same URL; a
\* page or result entry the gate denied is not fetched, and no page or
\* result entry is checked or fetched twice; the search-engine connector
\* goes on after a denied or failed link.
C10_NoRefetchByEntry ==
    /\ GateBeforeFetch
    /\ \A i \in CheckIdx : \A j \in FetchIdx :
          (i < j /\ ~log[i].ok) => ~SameEntry(i, j)
    /\ \A i, j \in FetchIdx : i # j => ~SameEntry(i, j)
    /\ \A i, j \in CheckIdx : i # j => ~SameEntry(i, j)
    /\ SerpBatchCompleted

\* the first link was denied and the second was still fetched
C10_Witness ==
    /\ entry = "search" /\ pc = "done"
    /\ \E i \in CheckIdx : log[i].idx = 1 /\ ~log[i].ok
    /\ \E j \in FetchIdx : log[j].idx = 2 /\ log[j].ok

====
